---- MODULE Spec2Model ----
(***************************************************************************)
(* Model of librubyfmt/src/intermediary.rs: the Intermediary token buffer, *)
(* its push dispatch, the blank-line insertion guard and the cleanup of    *)
(* single-line-breakable garbage.                                          *)
(*                                                                         *)
(* Positions are 0-based as in the source; tokens[i] of the source is      *)
(* tokens[i + 1] here.  Option<T> is a sequence of length 0 (None) or 1    *)
(* (Some).                                                                 *)
(***************************************************************************)
EXTENDS Integers, Sequences, FiniteSets, TLC

\* Largest number of tokens a push may find in the buffer.
MaxLen == 5

\* Largest number of tokens a push may find in the buffer when the pushes
\* are drawn from the smaller token sets (SpecLayout, SpecGuard, SpecGarbage).
MaxLong == 6

\* usize arithmetic: a stand-in width for the 64-bit usize of the target.
\* Only "the wrapped value is past the end of every buffer" matters.
UsizeModulus == 2 ^ 16

(***************************************************************************)
(* ConcreteLineToken (crate::line_tokens).  Every token is a record with   *)
(* the same three fields so that tokens of different kinds compare.        *)
(***************************************************************************)
Tok(k, d, c) == [kind |-> k, depth |-> d, contents |-> c]

HardNewLine == Tok("HardNewLine", 0, "")
ModuleKeyword == Tok("ModuleKeyword", 0, "")
ClassKeyword == Tok("ClassKeyword", 0, "")
DoKeyword == Tok("DoKeyword", 0, "")
DefKeyword == Tok("DefKeyword", 0, "")
End == Tok("End", 0, "")
Comma == Tok("Comma", 0, "")
Space == Tok("Space", 0, "")
CloseDelimiter == Tok("Delim", 0, ")")
Indent(depth) == Tok("Indent", depth, "")
DirectPart(part) == Tok("DirectPart", 0, part)
ConditionalKeyword(contents) == Tok("ConditionalKeyword", 0, contents)
Comment(contents) == Tok("Comment", 0, contents)

is_indent(t) == t.kind = "Indent"

is_single_line_breakable_garbage(t) ==
    \/ t.kind = "DirectPart" /\ t.contents = ""
    \/ t.kind = "Comma"
    \/ t.kind = "Space"

(***************************************************************************)
(* LineMetadata (crate::line_metadata).                                    *)
(***************************************************************************)
LineMetadata_new ==
    [has_require |-> FALSE, has_end |-> FALSE, has_def |-> FALSE,
     has_conditional |-> FALSE, has_do_keyword |-> FALSE,
     indent_level |-> <<>>, gets_indented |-> FALSE]

set_has_require(md) == [md EXCEPT !.has_require = TRUE]
set_has_end(md) == [md EXCEPT !.has_end = TRUE]
set_has_def(md) == [md EXCEPT !.has_def = TRUE]
set_has_conditional(md) == [md EXCEPT !.has_conditional = TRUE]
set_has_do_keyword(md) == [md EXCEPT !.has_do_keyword = TRUE]
set_gets_indented(md) == [md EXCEPT !.gets_indented = TRUE]
observe_indent_level(md, depth) == [md EXCEPT !.indent_level = <<depth>>]

wants_spacer_for_conditional(md) ==
    md.has_end /\ (md.has_conditional \/ md.has_do_keyword)

indent_level_increases_between(prev, cur) ==
    /\ Len(prev.indent_level) = 1
    /\ Len(cur.indent_level) = 1
    /\ prev.indent_level[1] < cur.indent_level[1]

(***************************************************************************)
(* Vec and usize helpers.                                                  *)
(***************************************************************************)
\* a - b on usize without overflow checks (wrapping).
wrapping_sub(a, b) == (a - b + UsizeModulus) % UsizeModulus

\* Vec::get: None past the end.
Get(v, i) == IF i < Len(v) THEN <<v[i + 1]>> ELSE <<>>

\* Some(&HardNewLine) / Some(&Indent { .. }) patterns.
IsSomeHardNewLine(o) == Len(o) = 1 /\ o[1] = HardNewLine
IsSomeIndent(o) == Len(o) = 1 /\ is_indent(o[1])

\* Vec::insert(i, x) for i <= len.
VecInsert(v, i, x) == SubSeq(v, 1, i) \o <<x>> \o SubSeq(v, i + 1, Len(v))

\* Vec::remove(i) for i < len.
VecRemove(v, i) == SubSeq(v, 1, i) \o SubSeq(v, i + 2, Len(v))

(***************************************************************************)
(* The Intermediary as a value: its four fields, the build's               *)
(* debug_assertions setting, and what the running call has done so far     *)
(* (panicked: the abort it ended in; inserted: how many synthetic          *)
(* HardNewLines it spliced in; do_push: push's local).                     *)
(***************************************************************************)
Intermediary_new(dbg) ==
    [tokens |-> <<>>,
     index_of_last_hard_newline |-> 0,
     current_line_metadata |-> LineMetadata_new,
     previous_line_metadata |-> <<>>,
     debug_assertions |-> dbg,
     panicked |-> "none",
     inserted |-> 0,
     do_push |-> TRUE]

Panic(s, why) == [s EXCEPT !.panicked = why]

\* debug_assert_newlines: a no-op without debug_assertions.
debug_assert_newlines(s) ==
    IF ~s.debug_assertions \/ s.index_of_last_hard_newline = 0
    THEN s
    ELSE IF IsSomeHardNewLine(Get(s.tokens, s.index_of_last_hard_newline))
         THEN s
         ELSE Panic(s, "newlines")

\* insert_trailing_blankline without its (_, HardNewLine, HardNewLine) arm.
insert_trailing_blankline_one_shape(s, bl) ==
    LET i == s.index_of_last_hard_newline
        a == Get(s.tokens, wrapping_sub(i, 2))
        b == Get(s.tokens, wrapping_sub(i, 1))
        c == Get(s.tokens, i)
    IN  IF s.debug_assertions /\ i < 2
        THEN Panic(s, "overflow")
        ELSE IF IsSomeHardNewLine(a) /\ IsSomeIndent(b) /\ IsSomeHardNewLine(c)
        THEN s
        ELSE IF i > Len(s.tokens)
        THEN Panic(s, "bounds")
        ELSE debug_assert_newlines(
                 [s EXCEPT !.tokens = VecInsert(@, i, HardNewLine),
                           !.index_of_last_hard_newline = i + 1,
                           !.inserted = @ + 1])

\* insert_trailing_blankline writing the HardNewLine over the token after
\* the index instead of shifting the tokens right.
insert_trailing_blankline_overwrite(s, bl) ==
    LET i == s.index_of_last_hard_newline
        a == Get(s.tokens, wrapping_sub(i, 2))
        b == Get(s.tokens, wrapping_sub(i, 1))
        c == Get(s.tokens, i)
    IN  IF s.debug_assertions /\ i < 2
        THEN Panic(s, "overflow")
        ELSE IF IsSomeHardNewLine(a) /\ IsSomeIndent(b) /\ IsSomeHardNewLine(c)
        THEN s
        ELSE IF IsSomeHardNewLine(b) /\ IsSomeHardNewLine(c)
        THEN s
        ELSE IF i + 1 >= Len(s.tokens)
        THEN Panic(s, "bounds")
        ELSE debug_assert_newlines(
                 [s EXCEPT !.tokens = [@ EXCEPT ![i + 2] = HardNewLine],
                           !.index_of_last_hard_newline = i + 1,
                           !.inserted = @ + 1])

\* insert_trailing_blankline leaving the index on the HardNewLine it put in.
insert_trailing_blankline_no_increment(s, bl) ==
    LET i == s.index_of_last_hard_newline
        a == Get(s.tokens, wrapping_sub(i, 2))
        b == Get(s.tokens, wrapping_sub(i, 1))
        c == Get(s.tokens, i)
    IN  IF s.debug_assertions /\ i < 2
        THEN Panic(s, "overflow")
        ELSE IF IsSomeHardNewLine(a) /\ IsSomeIndent(b) /\ IsSomeHardNewLine(c)
        THEN s
        ELSE IF IsSomeHardNewLine(b) /\ IsSomeHardNewLine(c)
        THEN s
        ELSE IF i > Len(s.tokens)
        THEN Panic(s, "bounds")
        ELSE debug_assert_newlines(
                 [s EXCEPT !.tokens = VecInsert(@, i, HardNewLine),
                           !.inserted = @ + 1])

\* insert_trailing_blankline.  The positions index - 2 and index - 1 are
\* usize subtractions: with debug_assertions (overflow checks) an index
\* below 2 aborts, without them the value wraps and get() answers None.
insert_trailing_blankline(s, bl) ==
    LET i == s.index_of_last_hard_newline
        a == Get(s.tokens, wrapping_sub(i, 2))
        b == Get(s.tokens, wrapping_sub(i, 1))
        c == Get(s.tokens, i)
    IN  IF s.debug_assertions /\ i < 2
        THEN Panic(s, "overflow")
        ELSE IF IsSomeHardNewLine(a) /\ IsSomeIndent(b) /\ IsSomeHardNewLine(c)
        THEN s
        ELSE IF IsSomeHardNewLine(b) /\ IsSomeHardNewLine(c)
        THEN s
        ELSE IF i > Len(s.tokens)
        THEN Panic(s, "bounds")
        ELSE debug_assert_newlines(
                 [s EXCEPT !.tokens = VecInsert(@, i, HardNewLine),
                           !.index_of_last_hard_newline = i + 1,
                           !.inserted = @ + 1])

(***************************************************************************)
(* push: the match arms, each the state after the arm.                     *)
(***************************************************************************)
BlanklineReason ==
    {"ComesAfterEnd", "Conditional", "ClassOrModule", "DoKeyword",
     "EndOfRequireBlock", "CommentAfterEnd"}

HasPrev(s) == Len(s.previous_line_metadata) = 1
Prev(s) == s.previous_line_metadata[1]

\* The HardNewLine arm without the suppression of a third newline.
hard_newline_arm_no_suppression(s) ==
    LET s1 == IF /\ HasPrev(s)
                 /\ ~s.current_line_metadata.has_require
                 /\ Prev(s).has_require
              THEN insert_trailing_blankline(s, "EndOfRequireBlock")
              ELSE s
    IN  IF s1.panicked # "none"
        THEN s1
        ELSE [s1 EXCEPT !.previous_line_metadata = <<s1.current_line_metadata>>,
                        !.current_line_metadata = LineMetadata_new,
                        !.index_of_last_hard_newline = Len(s1.tokens)]

\* The HardNewLine arm with the suppression leaving the index at the buffer
\* length.
hard_newline_arm_stale_index(s) ==
    LET s1 == IF /\ HasPrev(s)
                 /\ ~s.current_line_metadata.has_require
                 /\ Prev(s).has_require
              THEN insert_trailing_blankline(s, "EndOfRequireBlock")
              ELSE s
        s2 == [s1 EXCEPT !.previous_line_metadata = <<s1.current_line_metadata>>,
                         !.current_line_metadata = LineMetadata_new,
                         !.index_of_last_hard_newline = Len(s1.tokens)]
        i  == s2.index_of_last_hard_newline
    IN  IF s1.panicked # "none"
        THEN s1
        ELSE IF /\ Len(s2.tokens) >= 2
                /\ IsSomeHardNewLine(Get(s2.tokens, i - 2))
                /\ IsSomeHardNewLine(Get(s2.tokens, i - 1))
        THEN [s2 EXCEPT !.do_push = FALSE]
        ELSE s2

\* The HardNewLine arm deciding the end of a require block on the previous
\* line alone.
hard_newline_arm_any_current(s) ==
    LET s1 == IF HasPrev(s) /\ Prev(s).has_require
              THEN insert_trailing_blankline(s, "EndOfRequireBlock")
              ELSE s
        s2 == [s1 EXCEPT !.previous_line_metadata = <<s1.current_line_metadata>>,
                         !.current_line_metadata = LineMetadata_new,
                         !.index_of_last_hard_newline = Len(s1.tokens)]
        i  == s2.index_of_last_hard_newline
    IN  IF s1.panicked # "none"
        THEN s1
        ELSE IF /\ Len(s2.tokens) >= 2
                /\ IsSomeHardNewLine(Get(s2.tokens, i - 2))
                /\ IsSomeHardNewLine(Get(s2.tokens, i - 1))
        THEN [s2 EXCEPT !.do_push = FALSE,
                        !.index_of_last_hard_newline = Len(s2.tokens) - 1]
        ELSE s2

\* The HardNewLine arm deciding the end of a require block after the swap
\* of the line metadata.
hard_newline_arm_post_swap(s) ==
    LET s0 == [s EXCEPT !.previous_line_metadata = <<s.current_line_metadata>>,
                        !.current_line_metadata = LineMetadata_new]
        s1 == IF /\ ~s0.current_line_metadata.has_require
                 /\ Prev(s0).has_require
              THEN insert_trailing_blankline(s0, "EndOfRequireBlock")
              ELSE s0
        s2 == [s1 EXCEPT !.index_of_last_hard_newline = Len(s1.tokens)]
        i  == s2.index_of_last_hard_newline
    IN  IF s1.panicked # "none"
        THEN s1
        ELSE IF /\ Len(s2.tokens) >= 2
                /\ IsSomeHardNewLine(Get(s2.tokens, i - 2))
                /\ IsSomeHardNewLine(Get(s2.tokens, i - 1))
        THEN [s2 EXCEPT !.do_push = FALSE,
                        !.index_of_last_hard_newline = Len(s2.tokens) - 1]
        ELSE s2

\* The HardNewLine arm taking the index before the end-of-require-block
\* insertion instead of after it.
hard_newline_arm_early_index(s) ==
    LET s1 == IF /\ HasPrev(s)
                 /\ ~s.current_line_metadata.has_require
                 /\ Prev(s).has_require
              THEN insert_trailing_blankline(s, "EndOfRequireBlock")
              ELSE s
        s2 == [s1 EXCEPT !.previous_line_metadata = <<s1.current_line_metadata>>,
                         !.current_line_metadata = LineMetadata_new,
                         !.index_of_last_hard_newline = Len(s.tokens)]
        i  == Len(s2.tokens)
    IN  IF s1.panicked # "none"
        THEN s1
        ELSE IF /\ Len(s2.tokens) >= 2
                /\ IsSomeHardNewLine(Get(s2.tokens, i - 2))
                /\ IsSomeHardNewLine(Get(s2.tokens, i - 1))
        THEN [s2 EXCEPT !.do_push = FALSE,
                        !.index_of_last_hard_newline = Len(s2.tokens) - 1]
        ELSE s2

\* ConcreteLineToken::HardNewLine => { ... }
hard_newline_arm(s) ==
    LET s1 == IF /\ HasPrev(s)
                 /\ ~s.current_line_metadata.has_require
                 /\ Prev(s).has_require
              THEN insert_trailing_blankline(s, "EndOfRequireBlock")
              ELSE s
        s2 == [s1 EXCEPT !.previous_line_metadata = <<s1.current_line_metadata>>,
                         !.current_line_metadata = LineMetadata_new,
                         !.index_of_last_hard_newline = Len(s1.tokens)]
        i  == s2.index_of_last_hard_newline
    IN  IF s1.panicked # "none"
        THEN s1
        ELSE IF /\ Len(s2.tokens) >= 2
                /\ IsSomeHardNewLine(Get(s2.tokens, i - 2))
                /\ IsSomeHardNewLine(Get(s2.tokens, i - 1))
        THEN [s2 EXCEPT !.do_push = FALSE,
                        !.index_of_last_hard_newline = Len(s2.tokens) - 1]
        ELSE s2

handle_end(s) ==
    [s EXCEPT !.current_line_metadata = set_has_end(@)]

handle_def(s) ==
    [s EXCEPT !.current_line_metadata = set_has_def(@)]

\* handle_do_keyword asking the current line, not the previous one, whether
\* a spacer is wanted.
handle_do_keyword_current_line(s) ==
    LET s1 == [s EXCEPT !.current_line_metadata = set_has_do_keyword(@)]
    IN  IF HasPrev(s1) /\ wants_spacer_for_conditional(s1.current_line_metadata)
        THEN insert_trailing_blankline(s1, "DoKeyword")
        ELSE s1

handle_do_keyword(s) ==
    LET s1 == [s EXCEPT !.current_line_metadata = set_has_do_keyword(@)]
    IN  IF HasPrev(s1) /\ wants_spacer_for_conditional(Prev(s1))
        THEN insert_trailing_blankline(s1, "DoKeyword")
        ELSE s1

\* handle_class_or_module calling the guard also when no line was closed yet.
handle_class_or_module_no_prev_check(s) ==
    IF ~HasPrev(s) \/ ~Prev(s).gets_indented
    THEN insert_trailing_blankline(s, "ClassOrModule")
    ELSE s

handle_class_or_module(s) ==
    IF HasPrev(s) /\ ~Prev(s).gets_indented
    THEN insert_trailing_blankline(s, "ClassOrModule")
    ELSE s

\* handle_conditional without the test of cond.
handle_conditional_any_keyword(s, cond) ==
    LET s1 == [s EXCEPT !.current_line_metadata = set_has_conditional(@)]
    IN  IF HasPrev(s1) /\ wants_spacer_for_conditional(Prev(s1))
        THEN insert_trailing_blankline(s1, "Conditional")
        ELSE s1

handle_conditional(s, cond) ==
    LET s1 == [s EXCEPT !.current_line_metadata = set_has_conditional(@)]
    IN  IF HasPrev(s1) /\ wants_spacer_for_conditional(Prev(s1)) /\ cond = "if"
        THEN insert_trailing_blankline(s1, "Conditional")
        ELSE s1

\* The Indent arm comparing the levels before it records the new depth.
indent_arm_compare_first(s, depth) ==
    LET s1 == [s EXCEPT !.current_line_metadata = observe_indent_level(@, depth)]
    IN  IF /\ HasPrev(s)
           /\ indent_level_increases_between(Prev(s), s.current_line_metadata)
        THEN [s1 EXCEPT !.previous_line_metadata = <<set_gets_indented(Prev(s1))>>]
        ELSE s1

\* ConcreteLineToken::Indent { depth } => { ... }
indent_arm(s, depth) ==
    LET s1 == [s EXCEPT !.current_line_metadata = observe_indent_level(@, depth)]
    IN  IF /\ HasPrev(s1)
           /\ indent_level_increases_between(Prev(s1), s1.current_line_metadata)
        THEN [s1 EXCEPT !.previous_line_metadata = <<set_gets_indented(Prev(s1))>>]
        ELSE s1

\* The DirectPart arm without the test of the token before.
direct_part_arm_anywhere(s, part) ==
    IF part = "require"
    THEN [s EXCEPT !.current_line_metadata = set_has_require(@)]
    ELSE s

\* ConcreteLineToken::DirectPart { part } => { ... }
direct_part_arm(s, part) ==
    IF /\ part = "require"
       /\ Len(s.tokens) > 0
       /\ is_indent(s.tokens[Len(s.tokens)])
    THEN [s EXCEPT !.current_line_metadata = set_has_require(@)]
    ELSE s

\* last_4 answering None at four tokens too.
last_4_off_by_one(s) ==
    IF Len(s.tokens) <= 4
    THEN <<>>
    ELSE << <<s.tokens[Len(s.tokens) - 3], s.tokens[Len(s.tokens) - 2],
              s.tokens[Len(s.tokens) - 1], s.tokens[Len(s.tokens)]>> >>

\* last_4: None below four tokens.
last_4(s) ==
    IF Len(s.tokens) < 4
    THEN <<>>
    ELSE << <<s.tokens[Len(s.tokens) - 3], s.tokens[Len(s.tokens) - 2],
              s.tokens[Len(s.tokens) - 1], s.tokens[Len(s.tokens)]>> >>

\* ConcreteLineToken::Comment { .. } => { ... }
comment_arm(s) ==
    IF /\ Len(last_4(s)) = 1
       /\ last_4(s)[1][3] = End
       /\ last_4(s)[1][4] = HardNewLine
    THEN insert_trailing_blankline(s, "CommentAfterEnd")
    ELSE s

\* match &lt { ... }
dispatch(s, lt) ==
    CASE lt.kind = "HardNewLine" -> hard_newline_arm(s)
      [] lt.kind \in {"ModuleKeyword", "ClassKeyword"} -> handle_class_or_module(s)
      [] lt.kind = "DoKeyword" -> handle_do_keyword(s)
      [] lt.kind = "ConditionalKeyword" -> handle_conditional(s, lt.contents)
      [] lt.kind = "End" -> handle_end(s)
      [] lt.kind = "DefKeyword" -> handle_def(s)
      [] lt.kind = "Indent" -> indent_arm(s, lt.depth)
      [] lt.kind = "DirectPart" -> direct_part_arm(s, lt.contents)
      [] lt.kind = "Comment" -> comment_arm(s)
      [] OTHER -> s

\* pub fn push(&mut self, lt: ConcreteLineToken)
push(s, lt) ==
    LET s0 == debug_assert_newlines([s EXCEPT !.inserted = 0, !.do_push = TRUE])
        s1 == dispatch(s0, lt)
        s2 == IF s1.do_push THEN [s1 EXCEPT !.tokens = Append(@, lt)] ELSE s1
    IN  IF s0.panicked # "none" THEN s0
        ELSE IF s1.panicked # "none" THEN s1
        ELSE debug_assert_newlines(s2)

\* pub fn clear_breakable_garbage(&mut self): the loop, one test per call.
\* len - 2 below two tokens aborts in every build: the subtraction
\* overflows with overflow checks, and without them the wrapped position
\* is out of bounds for the indexing.
RECURSIVE clear_breakable_garbage(_)
clear_breakable_garbage(s) ==
    IF Len(s.tokens) < 2
    THEN Panic(s, IF s.debug_assertions THEN "overflow" ELSE "bounds")
    ELSE IF is_single_line_breakable_garbage(s.tokens[Len(s.tokens) - 1])
    THEN clear_breakable_garbage(
             [s EXCEPT !.tokens = VecRemove(@, Len(s.tokens) - 2)])
    ELSE s

(***************************************************************************)
(* The state machine.                                                      *)
(***************************************************************************)
VARIABLES
    tokens,                      \* Vec<ConcreteLineToken>
    index_of_last_hard_newline,  \* usize
    current_line_metadata,       \* LineMetadata
    previous_line_metadata,      \* Option<LineMetadata>
    debug_assertions,            \* the build: cfg(debug_assertions)
    panicked,                    \* "none", or the abort the last call ended in
    inserted,                    \* synthetic HardNewLines spliced in by the last
                                 \* call (by the last run of direct guard calls)
    op,                          \* the last call: "new", "push", "insert" (the
                                 \* guard, called directly), "insert_again" (the
                                 \* guard, directly after the guard), "clear"
    lt,                          \* the token of the last push
    newline_pushed               \* whether push was ever called with HardNewLine

vars == <<tokens, index_of_last_hard_newline, current_line_metadata,
          previous_line_metadata, debug_assertions, panicked, inserted, op, lt,
          newline_pushed>>

\* The Intermediary of the current state.
Self ==
    [tokens |-> tokens,
     index_of_last_hard_newline |-> index_of_last_hard_newline,
     current_line_metadata |-> current_line_metadata,
     previous_line_metadata |-> previous_line_metadata,
     debug_assertions |-> debug_assertions,
     panicked |-> panicked,
     inserted |-> inserted,
     do_push |-> TRUE]

Becomes(s) ==
    /\ tokens' = s.tokens
    /\ index_of_last_hard_newline' = s.index_of_last_hard_newline
    /\ current_line_metadata' = s.current_line_metadata
    /\ previous_line_metadata' = s.previous_line_metadata
    /\ panicked' = s.panicked
    /\ inserted' = s.inserted
    /\ UNCHANGED debug_assertions

Init ==
    /\ debug_assertions \in BOOLEAN
    /\ tokens = Intermediary_new(debug_assertions).tokens
    /\ index_of_last_hard_newline =
           Intermediary_new(debug_assertions).index_of_last_hard_newline
    /\ current_line_metadata = Intermediary_new(debug_assertions).current_line_metadata
    /\ previous_line_metadata = Intermediary_new(debug_assertions).previous_line_metadata
    /\ panicked = "none"
    /\ inserted = 0
    /\ op = "new"
    /\ lt = HardNewLine
    /\ newline_pushed = FALSE

\* A call is possible while no call has aborted.
Alive == panicked = "none"

Push(t) ==
    /\ Alive
    /\ Becomes(push(Self, t))
    /\ op' = "push"
    /\ lt' = t
    /\ newline_pushed' = (newline_pushed \/ t = HardNewLine)

(***************************************************************************)
(* Spec: any sequence of push calls, over tokens of every arm of push,     *)
(* while fewer than MaxLen tokens are in the buffer.                       *)
(***************************************************************************)
Depths == {0, 1}
Parts == {"require", "x"}
Conditions == {"if", "elsif"}

Short == Len(tokens) < MaxLen

PushHardNewLine == Short /\ Push(HardNewLine)
PushClassOrModule == Short /\ Push(ClassKeyword)
PushDoKeyword == Short /\ Push(DoKeyword)
PushConditionalKeyword == Short /\ \E c \in Conditions : Push(ConditionalKeyword(c))
PushEnd == Short /\ Push(End)
PushDefKeyword == Short /\ Push(DefKeyword)
PushIndent == Short /\ \E d \in Depths : Push(Indent(d))
PushDirectPart == Short /\ \E p \in Parts : Push(DirectPart(p))
PushComment == Short /\ Push(Comment("# x"))

Next ==
    \/ PushHardNewLine
    \/ PushClassOrModule
    \/ PushDoKeyword
    \/ PushConditionalKeyword
    \/ PushEnd
    \/ PushDefKeyword
    \/ PushIndent
    \/ PushDirectPart
    \/ PushComment

Spec == Init /\ [][Next]_vars

(***************************************************************************)
(* SpecLayout: any sequence of push calls over the tokens that lay lines   *)
(* out (newlines, indentation, fragments, a module keyword), while fewer   *)
(* than MaxLong tokens are in the buffer: long enough for two full lines.  *)
(***************************************************************************)
LayoutTokens ==
    {HardNewLine, Indent(0), DirectPart("require"), DirectPart("x"), ModuleKeyword}

PushLayout ==
    /\ Len(tokens) < MaxLong
    /\ \E t \in LayoutTokens : Push(t)

SpecLayout == Init /\ [][PushLayout]_vars

(***************************************************************************)
(* SpecGuard: the pushes of SpecLayout, and calls of the public            *)
(* insert_trailing_blankline from outside push, made while the index       *)
(* addresses a HardNewLine.                                                *)
(***************************************************************************)
CallInsertTrailingBlankline ==
    /\ Alive
    /\ IsSomeHardNewLine(Get(tokens, index_of_last_hard_newline))
    /\ \E bl \in BlanklineReason :
           Becomes(insert_trailing_blankline(
               [Self EXCEPT !.inserted =
                    IF op \in {"insert", "insert_again"} THEN @ ELSE 0], bl))
    /\ op' = IF op \in {"insert", "insert_again"} THEN "insert_again" ELSE "insert"
    /\ UNCHANGED <<lt, newline_pushed>>

NextGuard ==
    \/ PushLayout
    \/ CallInsertTrailingBlankline

SpecGuard == Init /\ [][NextGuard]_vars

(***************************************************************************)
(* SpecGarbage: pushes over filler and delimiter tokens, and calls of      *)
(* clear_breakable_garbage made, as its callers must, on a buffer of at    *)
(* least two tokens.                                                       *)
(***************************************************************************)
GarbageTokens ==
    {HardNewLine, Comma, Space, DirectPart(""), DirectPart("x"), CloseDelimiter}

PushGarbage ==
    /\ Len(tokens) < MaxLong
    /\ \E t \in GarbageTokens : Push(t)

CallClearBreakableGarbage ==
    /\ Alive
    /\ Len(tokens) >= 2
    /\ Becomes(clear_breakable_garbage([Self EXCEPT !.inserted = 0]))
    /\ op' = "clear"
    /\ UNCHANGED <<lt, newline_pushed>>

NextGarbage ==
    \/ PushGarbage
    \/ CallClearBreakableGarbage

SpecGarbage == Init /\ [][NextGarbage]_vars

(***************************************************************************)
(* Properties.                                                             *)
(***************************************************************************)
\* Position i (0-based) of v holds a HardNewLine / an Indent.
NewLineAt(v, i) == i >= 0 /\ i < Len(v) /\ v[i + 1] = HardNewLine
IndentAt(v, i) == i >= 0 /\ i < Len(v) /\ is_indent(v[i + 1])

\* The tokens of v after position i (0-based).
After(v, i) == SubSeq(v, i + 2, Len(v))

EndsWith(v, w) ==
    Len(v) >= Len(w) /\ SubSeq(v, Len(v) - Len(w) + 1, Len(v)) = w

\* C1 (No-triple-newline): after any sequence of pushes the buffer never
\* holds HardNewLine at three consecutive positions.
NoTripleNewline ==
    \A i \in 0..(Len(tokens) - 3) :
        ~(NewLineAt(tokens, i) /\ NewLineAt(tokens, i + 1) /\ NewLineAt(tokens, i + 2))

\* C1 witness: the newline closing the line after a require has been pushed
\* onto an empty line: the guard spliced one in and the pushed one was
\* suppressed, leaving a run of exactly two.
NoTripleNewlineWitness ==
    /\ op = "push" /\ lt = HardNewLine /\ inserted = 1 /\ panicked = "none"
    /\ tokens = <<Indent(0), DirectPart("require"), HardNewLine, HardNewLine>>

\* The index is 0 or a position of the buffer holding a HardNewLine.
IndexAddressesNewLine(s) ==
    \/ s.index_of_last_hard_newline = 0
    \/ NewLineAt(s.tokens, s.index_of_last_hard_newline)

\* C3 (Index invariant under push): after every push, and after every
\* insertion the guard performs when a push calls it (the pushes call it
\* only when a previous line exists), index_of_last_hard_newline is 0 or
\* addresses a HardNewLine, and the self-check never fires.
IndexInvariant ==
    /\ IndexAddressesNewLine(Self)
    /\ panicked # "newlines"
    /\ (Alive /\ HasPrev(Self)) =>
           LET r == insert_trailing_blankline(Self, "ClassOrModule")
           IN  /\ r.panicked # "newlines"
               /\ r.panicked = "none" => IndexAddressesNewLine(r)

\* C3 witness: a push has spliced in a newline and the index moved right
\* with the newline it addresses.
IndexInvariantWitness ==
    /\ op = "push" /\ inserted = 1 /\ panicked = "none"
    /\ index_of_last_hard_newline = 3
    /\ tokens = <<Indent(0), End, HardNewLine, HardNewLine, ClassKeyword>>

\* C4 (push never fails): no push ends in an abort.
PushNeverFails == op = "push" => panicked = "none"

\* v without the HardNewLines at its end.
RECURSIVE TrimNewLines(_)
TrimNewLines(v) ==
    IF Len(v) > 0 /\ v[Len(v)] = HardNewLine
    THEN TrimNewLines(SubSeq(v, 1, Len(v) - 1))
    ELSE v

\* A blank line ends at position i: the HardNewLine at i is directly
\* preceded by a HardNewLine, or by an Indent preceded by a HardNewLine.
BlankLineBefore(v, i) ==
    /\ NewLineAt(v, i)
    /\ \/ NewLineAt(v, i - 1)
       \/ IndentAt(v, i - 1) /\ NewLineAt(v, i - 2)

\* C5 (Require-block closing): a push(HardNewLine) closing a line without
\* has_require after a line with has_require leaves the previous line's
\* tokens, exactly two HardNewLines, then the tokens of the line just closed
\* (and the pushed HardNewLine, unless that line is empty); a
\* push(HardNewLine) closing a line with has_require only appends the token.
RequireBlockClosing ==
    [][(op' = "push" /\ lt' = HardNewLine) =>
        /\ (/\ HasPrev(Self)
            /\ ~current_line_metadata.has_require
            /\ Prev(Self).has_require) =>
               LET line == After(tokens, index_of_last_hard_newline)
               IN  /\ panicked' = "none"
                   /\ tokens' =
                          TrimNewLines(SubSeq(tokens, 1, index_of_last_hard_newline + 1))
                              \o <<HardNewLine, HardNewLine>> \o line
                              \o (IF line = <<>> THEN <<>> ELSE <<HardNewLine>>)
        /\ current_line_metadata.has_require =>
               /\ panicked' = "none"
               /\ inserted' = 0
               /\ tokens' = Append(tokens, HardNewLine)
      ]_vars

\* C5 witness: the line x after a require line has been closed and the
\* blank line spliced in before it.
RequireBlockClosingWitness ==
    /\ op = "push" /\ lt = HardNewLine /\ inserted = 1 /\ panicked = "none"
    /\ tokens = <<Indent(0), DirectPart("require"), HardNewLine, HardNewLine,
                  DirectPart("x"), HardNewLine>>

\* C6 (Class/module separation): push(ClassKeyword) or push(ModuleKeyword)
\* with a previous line whose gets_indented is false leaves a blank line
\* directly before the current line; with gets_indented true it only
\* appends the token.
ClassOrModuleSeparation ==
    [][(op' = "push" /\ lt'.kind \in {"ModuleKeyword", "ClassKeyword"} /\ HasPrev(Self)) =>
        IF ~Prev(Self).gets_indented
        THEN /\ panicked' = "none"
             /\ BlankLineBefore(tokens', index_of_last_hard_newline')
             /\ After(tokens', index_of_last_hard_newline') =
                    Append(After(tokens, index_of_last_hard_newline), lt')
        ELSE /\ inserted' = 0
             /\ tokens' = Append(tokens, lt')
      ]_vars

\* C7 (Conditional spacer specificity): push(ConditionalKeyword{contents})
\* sets has_conditional on the current line; when the previous line wants a
\* spacer and contents is "if" a blank line ends up directly before the
\* current line, and in every other case the push only appends the token.
ConditionalSpacer ==
    [][(op' = "push" /\ lt'.kind = "ConditionalKeyword") =>
        /\ panicked' = "none"
        /\ current_line_metadata'.has_conditional
        /\ IF /\ HasPrev(Self)
              /\ wants_spacer_for_conditional(Prev(Self))
              /\ lt'.contents = "if"
           THEN /\ BlankLineBefore(tokens', index_of_last_hard_newline')
                /\ After(tokens', index_of_last_hard_newline') =
                       Append(After(tokens, index_of_last_hard_newline), lt')
           ELSE /\ inserted' = 0
                /\ tokens' = Append(tokens, lt')
                /\ index_of_last_hard_newline' = index_of_last_hard_newline
      ]_vars

\* C7 witness: "if" pushed after the line "end do" got its blank line.
ConditionalSpacerWitness ==
    /\ op = "push" /\ lt = ConditionalKeyword("if") /\ inserted = 1
    /\ panicked = "none"
    /\ tokens = <<End, DoKeyword, HardNewLine, HardNewLine, ConditionalKeyword("if")>>

\* C8 as stated (Comment-after-end): whenever the buffer ends with End,
\* HardNewLine, push(Comment) leaves it ending with End, HardNewLine,
\* HardNewLine, Comment.
CommentAfterEndAnyLength ==
    [][(op' = "push" /\ lt'.kind = "Comment" /\ EndsWith(tokens, <<End, HardNewLine>>)) =>
        /\ panicked' = "none"
        /\ EndsWith(tokens', <<End, HardNewLine, HardNewLine, lt'>>)
      ]_vars

\* C8 as amended: the same, for buffers of at least four tokens.
CommentAfterEnd ==
    [][(/\ op' = "push" /\ lt'.kind = "Comment"
        /\ Len(tokens) >= 4
        /\ EndsWith(tokens, <<End, HardNewLine>>)) =>
        /\ panicked' = "none"
        /\ EndsWith(tokens', <<End, HardNewLine, HardNewLine, lt'>>)
      ]_vars

\* C8 witness: a comment pushed after "x", "end" on a line got its blank line.
CommentAfterEndWitness ==
    /\ op = "push" /\ lt = Comment("# x") /\ inserted = 1 /\ panicked = "none"
    /\ tokens = <<Indent(0), DirectPart("x"), End, HardNewLine, HardNewLine,
                  Comment("# x")>>

\* A token that is neither a HardNewLine nor an Indent.
IsContent(t) == t.kind \notin {"HardNewLine", "Indent"}

\* C2 (At most one blank line between content): between two successive
\* content tokens of the buffer lie at most two HardNewLines, that is at
\* most one blank line of either shape.
AtMostOneBlankLine ==
    \A i, j \in 1..Len(tokens) :
        (/\ i < j
         /\ IsContent(tokens[i])
         /\ IsContent(tokens[j])
         /\ \A k \in (i + 1)..(j - 1) : ~IsContent(tokens[k])) =>
            Cardinality({k \in (i + 1)..(j - 1) : tokens[k] = HardNewLine}) <= 2

\* C9 (Idempotent guard): a run of direct calls of the guard, started where
\* the index addresses a HardNewLine, splices in at most one HardNewLine;
\* a call directly after another leaves buffer and index as they are; and
\* the state a call leaves is the one it leaves for every reason.
IdempotentGuard ==
    [][(op' \in {"insert", "insert_again"}) =>
        /\ inserted' <= 1
        /\ op' = "insert_again" =>
               /\ tokens' = tokens
               /\ index_of_last_hard_newline' = index_of_last_hard_newline
               /\ inserted' = inserted
        /\ \A bl \in BlanklineReason :
               LET r == insert_trailing_blankline(Self, bl)
               IN  /\ tokens' = r.tokens
                   /\ index_of_last_hard_newline' = r.index_of_last_hard_newline
                   /\ panicked' = r.panicked
      ]_vars

\* C9 witness: two direct calls in a row after "x" on an indented line was
\* closed; the first spliced the blank line in, the second changed nothing.
IdempotentGuardWitness ==
    /\ op = "insert_again" /\ inserted = 1 /\ panicked = "none"
    /\ index_of_last_hard_newline = 3
    /\ tokens = <<Indent(0), DirectPart("x"), HardNewLine, HardNewLine>>

\* v without the single-line-breakable garbage at its end.
RECURSIVE TrimGarbage(_)
TrimGarbage(v) ==
    IF Len(v) > 0 /\ is_single_line_breakable_garbage(v[Len(v)])
    THEN TrimGarbage(SubSeq(v, 1, Len(v) - 1))
    ELSE v

\* C10 (Garbage collapse): clear_breakable_garbage on prefix ++ fillers ++
\* [last], fillers the maximal run of filler before the final token, leaves
\* prefix ++ [last].
GarbageCollapse ==
    [][(op' = "clear") =>
        /\ panicked' = "none"
        /\ tokens' = Append(TrimGarbage(SubSeq(tokens, 1, Len(tokens) - 1)),
                            tokens[Len(tokens)])
      ]_vars

\* The tokens of v that are not HardNewLine, in order.
NonNewLines(v) == SelectSeq(v, LAMBDA t : t # HardNewLine)

\* v with a HardNewLine put in at position i (0-based).
WithNewLineAt(v, i) == SubSeq(v, 1, i) \o <<HardNewLine>> \o SubSeq(v, i + 1, Len(v))

\* C11 (Order preservation): a push that completes leaves the tokens other
\* than HardNewLine as they were, in order, followed by the pushed token
\* when it is no HardNewLine; buffer and input differ only by a HardNewLine
\* put in at index_of_last_hard_newline and by a pushed HardNewLine left
\* out; every token not left out is the last of the buffer.  A push that
\* aborts leaves the buffer as it was.
OrderPreservation ==
    [][(op' = "push") =>
        /\ panicked' # "none" => tokens' = tokens
        /\ panicked' = "none" =>
               /\ NonNewLines(tokens') =
                      NonNewLines(tokens) \o
                          (IF lt' = HardNewLine THEN <<>> ELSE <<lt'>>)
               /\ \/ tokens' = Append(tokens, lt')
                  \/ tokens' = Append(WithNewLineAt(tokens, index_of_last_hard_newline), lt')
                  \/ lt' = HardNewLine /\ tokens' = tokens
                  \/ /\ lt' = HardNewLine
                     /\ tokens' = WithNewLineAt(tokens, index_of_last_hard_newline)
      ]_vars

\* C11 witness: a class keyword pushed after the line "x" went to the end
\* of the buffer and a HardNewLine was put in before it.
OrderPreservationWitness ==
    /\ op = "push" /\ lt = ClassKeyword /\ inserted = 1 /\ panicked = "none"
    /\ tokens = <<Indent(0), DirectPart("x"), HardNewLine, HardNewLine, ClassKeyword>>

\* C12 (Cleanup totality): clear_breakable_garbage on a buffer of at least
\* two tokens ends without an abort.
CleanupTotality == op = "clear" => panicked = "none"

\* C13 (Index invariant under cleanup): after a clear_breakable_garbage
\* that completes, index_of_last_hard_newline is 0 or addresses a
\* HardNewLine.
IndexInvariantUnderCleanup ==
    (op = "clear" /\ panicked = "none") => IndexAddressesNewLine(Self)

\* The end-of-require-block condition of the state, before any swap.
EndsRequireBlock ==
    /\ HasPrev(Self)
    /\ ~current_line_metadata.has_require
    /\ Prev(Self).has_require

\* The boolean facts of a line that md records.
Facts(md) ==
    {f \in {"has_require", "has_end", "has_def", "has_conditional", "has_do_keyword"} :
        md[f]}

\* C14 (Line-metadata lifecycle): every push(HardNewLine), appended or
\* suppressed, moves the current metadata as it was into the previous slot
\* and makes the current one fresh; a HardNewLine is spliced in by that push
\* only when the pair as it was before the swap ends a require block, and
\* always then unless the blank line is there already; a push of any other
\* token leaves the previous slot's presence and facts (but gets_indented)
\* as they were and only adds to the current line's facts.
MetadataLifecycle ==
    [][(op' = "push") =>
        IF lt' = HardNewLine
        THEN /\ panicked' = "none"
             /\ previous_line_metadata' = <<current_line_metadata>>
             /\ current_line_metadata' = LineMetadata_new
             /\ inserted' = 1 => EndsRequireBlock
             /\ (/\ EndsRequireBlock
                 /\ ~BlankLineBefore(tokens, index_of_last_hard_newline)) =>
                    inserted' = 1
        ELSE /\ Len(previous_line_metadata') = Len(previous_line_metadata)
             /\ HasPrev(Self) =>
                    [previous_line_metadata'[1] EXCEPT !.gets_indented = TRUE] =
                        [Prev(Self) EXCEPT !.gets_indented = TRUE]
             /\ Facts(current_line_metadata) \subseteq Facts(current_line_metadata')
             /\ Len(current_line_metadata.indent_level) <=
                    Len(current_line_metadata'.indent_level)
      ]_vars

\* C14 witness: the line "end do" has been closed: its facts are in the
\* previous slot and the current slot is fresh.
MetadataLifecycleWitness ==
    /\ op = "push" /\ lt = HardNewLine /\ panicked = "none"
    /\ tokens = <<End, DoKeyword, HardNewLine>>
    /\ previous_line_metadata =
           <<[LineMetadata_new EXCEPT !.has_end = TRUE, !.has_do_keyword = TRUE]>>
    /\ current_line_metadata = LineMetadata_new

\* C15 (Newline suppression and index update): on push(HardNewLine), with
\* base the buffer after any end-of-require-block insertion: if base holds
\* at least 2 tokens and its last two are HardNewLine the buffer is base and
\* the index is the position of its last token; otherwise the buffer is
\* base with the token appended and the index is the length of base.
SuppressionAndIndex ==
    [][(op' = "push" /\ lt' = HardNewLine) =>
        LET base == IF inserted' = 1
                    THEN WithNewLineAt(tokens, index_of_last_hard_newline)
                    ELSE tokens
        IN  /\ panicked' = "none"
            /\ IF /\ Len(base) >= 2
                  /\ base[Len(base)] = HardNewLine
                  /\ base[Len(base) - 1] = HardNewLine
               THEN /\ tokens' = base
                    /\ index_of_last_hard_newline' = Len(base) - 1
               ELSE /\ tokens' = Append(base, HardNewLine)
                    /\ index_of_last_hard_newline' = Len(base)
      ]_vars

\* C15 witness: a HardNewLine pushed on the empty line after an indented
\* require: one was spliced in, the pushed one suppressed, and the index is
\* the last position.
SuppressionAndIndexWitness ==
    /\ op = "push" /\ lt = HardNewLine /\ inserted = 1 /\ panicked = "none"
    /\ index_of_last_hard_newline = 3
    /\ tokens = <<Indent(1), DirectPart("require"), HardNewLine, HardNewLine>>

\* C16 (Retroactive indentation flag): push(Indent{depth}) records depth on
\* the current line and sets gets_indented on the previous line exactly when
\* that line exists and recorded a depth strictly below depth; no push but a
\* HardNewLine takes gets_indented back; the push only appends the token
\* and leaves index_of_last_hard_newline alone.
RetroactiveIndent ==
    [][(op' = "push" /\ lt' # HardNewLine) =>
        /\ (HasPrev(Self) /\ Prev(Self).gets_indented) =>
               previous_line_metadata'[1].gets_indented
        /\ lt'.kind = "Indent" =>
               /\ panicked' = "none"
               /\ current_line_metadata' =
                      [current_line_metadata EXCEPT !.indent_level = <<lt'.depth>>]
               /\ previous_line_metadata' =
                      IF /\ HasPrev(Self)
                         /\ Len(Prev(Self).indent_level) = 1
                         /\ Prev(Self).indent_level[1] < lt'.depth
                      THEN <<[Prev(Self) EXCEPT !.gets_indented = TRUE]>>
                      ELSE previous_line_metadata
               /\ inserted' = 0
               /\ tokens' = Append(tokens, lt')
               /\ index_of_last_hard_newline' = index_of_last_hard_newline
      ]_vars

\* C16 witness: a line at depth 1 begins after a line at depth 0, which is
\* now marked as getting indented.
RetroactiveIndentWitness ==
    /\ op = "push" /\ lt = Indent(1) /\ panicked = "none"
    /\ tokens = <<Indent(0), DefKeyword, HardNewLine, Indent(1)>>
    /\ previous_line_metadata[1].gets_indented
    /\ current_line_metadata.indent_level = <<1>>

\* C17 (Line-initial require detection): push(DirectPart{text}) leaves
\* has_require set if it was, sets it when text is "require" and the last
\* token of the buffer is an Indent, and otherwise leaves it unset; it
\* changes nothing else of the line metadata and only appends the token.
LineInitialRequire ==
    [][(op' = "push" /\ lt'.kind = "DirectPart") =>
        /\ panicked' = "none"
        /\ current_line_metadata' =
               [current_line_metadata EXCEPT !.has_require =
                    \/ @
                    \/ /\ lt'.contents = "require"
                       /\ Len(tokens) > 0
                       /\ tokens[Len(tokens)].kind = "Indent"]
        /\ previous_line_metadata' = previous_line_metadata
        /\ inserted' = 0
        /\ tokens' = Append(tokens, lt')
        /\ index_of_last_hard_newline' = index_of_last_hard_newline
      ]_vars

\* C17 witness: "require" pushed after "x" on an indented line: the line
\* has no has_require.
LineInitialRequireWitness ==
    /\ op = "push" /\ lt = DirectPart("require") /\ panicked = "none"
    /\ tokens = <<Indent(0), DirectPart("x"), DirectPart("require")>>
    /\ ~current_line_metadata.has_require

\* C18 (Do-keyword spacer): push(DoKeyword) sets has_do_keyword on the
\* current line; when the previous line exists and wants a spacer a blank
\* line ends up directly before the current line (one HardNewLine spliced
\* in at the index unless the blank line was there), and in every other
\* case the push only appends the token.
DoKeywordSpacer ==
    [][(op' = "push" /\ lt' = DoKeyword) =>
        /\ panicked' = "none"
        /\ current_line_metadata' =
               [current_line_metadata EXCEPT !.has_do_keyword = TRUE]
        /\ IF HasPrev(Self) /\ wants_spacer_for_conditional(Prev(Self))
           THEN /\ BlankLineBefore(tokens', index_of_last_hard_newline')
                /\ tokens' =
                       IF BlankLineBefore(tokens, index_of_last_hard_newline)
                       THEN Append(tokens, lt')
                       ELSE Append(WithNewLineAt(tokens, index_of_last_hard_newline), lt')
           ELSE /\ inserted' = 0
                /\ tokens' = Append(tokens, lt')
                /\ index_of_last_hard_newline' = index_of_last_hard_newline
      ]_vars

\* C18 witness: "do" pushed after the line "end if" got its blank line.
DoKeywordSpacerWitness ==
    /\ op = "push" /\ lt = DoKeyword /\ inserted = 1 /\ panicked = "none"
    /\ current_line_metadata.has_do_keyword
    /\ tokens = <<End, ConditionalKeyword("if"), HardNewLine, HardNewLine, DoKeyword>>

\* No HardNewLine of v sits at a position (0-based) greater than i.
NoNewLineAfter(v, i) == \A j \in (i + 1)..(Len(v) - 1) : ~NewLineAt(v, j)

\* C19 (the index addresses the last HardNewLine): once push was called with
\* HardNewLine, after every push index_of_last_hard_newline addresses a
\* HardNewLine and no HardNewLine sits at a greater position; a HardNewLine
\* a push splices in goes to the index, before every token of the line
\* not yet closed.
IndexAtLastNewLine ==
    /\ [](newline_pushed =>
              /\ NewLineAt(tokens, index_of_last_hard_newline)
              /\ NoNewLineAfter(tokens, index_of_last_hard_newline))
    /\ [][(op' = "push" /\ inserted' = 1) =>
            /\ newline_pushed
            /\ NoNewLineAfter(tokens, index_of_last_hard_newline)
            /\ SubSeq(tokens', 1, index_of_last_hard_newline + 1) =
                   Append(SubSeq(tokens, 1, index_of_last_hard_newline), HardNewLine)
            /\ After(tokens', index_of_last_hard_newline) =
                   SubSeq(tokens, index_of_last_hard_newline + 1, Len(tokens))
                       \o (IF Len(tokens') = Len(tokens) + 2 THEN <<lt'>> ELSE <<>>)
          ]_vars

\* C19 witness: "class" pushed as the second token of its line; the blank
\* line went in before the line, the index follows the moved HardNewLine.
IndexAtLastNewLineWitness ==
    /\ op = "push" /\ lt = ClassKeyword /\ inserted = 1 /\ panicked = "none"
    /\ index_of_last_hard_newline = 3
    /\ tokens = <<DefKeyword, End, HardNewLine, HardNewLine, DirectPart("x"), ClassKeyword>>

\* C20 (before the first HardNewLine): previous_line_metadata is present
\* exactly when push was called with HardNewLine; until then
\* index_of_last_hard_newline is 0, and every push completes, splices in
\* nothing and appends its token, so the buffer is the tokens pushed so far.
BeforeFirstNewLine ==
    /\ [](/\ HasPrev(Self) <=> newline_pushed
          /\ ~newline_pushed =>
                 /\ index_of_last_hard_newline = 0
                 /\ NonNewLines(tokens) = tokens)
    /\ [][(op' = "push" /\ ~newline_pushed) =>
            /\ panicked' = "none"
            /\ inserted' = 0
            /\ tokens' = Append(tokens, lt')
          ]_vars

\* C20 witness: three keywords that call the guard once a line was closed,
\* pushed before any HardNewLine.
BeforeFirstNewLineWitness ==
    /\ op = "push" /\ ~newline_pushed /\ panicked = "none"
    /\ previous_line_metadata = <<>>
    /\ index_of_last_hard_newline = 0
    /\ tokens = <<ClassKeyword, DoKeyword, ConditionalKeyword("if")>>

====
